---- MODULE Spec2Model ----
(***************************************************************************)
(* The two Cloud Functions of cloud_functions/functions: autoDispatch     *)
(* (topic dispatch-triggers) and onNewIncident (topic anomaly-triggers),  *)
(* running as independent invocations against the shared Firestore        *)
(* collections 'incidents' and 'responders'.  Every await of a handler is *)
(* one step; every downstream call may reject.                            *)
(***************************************************************************)
EXTENDS Integers, FiniteSets, Sequences, TLC

\* Number of messages (of either topic) the runtime delivers in one run.
MaxInv == 2

\* Documents of the 'incidents' collection, an id with no document, and a
\* payload without incidentId.
Incidents == {"I1", "I2"}
MissingId == "I0"
NoId == "undefined"
TriggerIds == Incidents \cup {MissingId, NoId}

\* Documents of the 'responders' collection.
Responders == {"R1", "R2"}

\* A field that is not set on a document, or a local not yet assigned.
NoValue == "none"
\* respondersSnapshot.empty
Empty == "empty"

\* Function instances running side by side; an instance that has finished an
\* invocation takes the next message.
Procs == {1, 2}

VARIABLES
    incidents,    \* incidents collection: id -> document fields
    responders,   \* responders collection: id -> document fields
    inv,          \* instance p's invocation: handler, payload, position, locals, effects
    started,      \* messages delivered so far
    upload,       \* DataUploadForm: uploadedFiles, selectedZone and its timers
    player        \* VideoPlayer: selectedFeed, isPlaying, currentTime and its intervals

vars == <<incidents, responders, inv, started, upload, player>>

\* error.message of what each downstream call rejects with.
ErrRead == "incident read failed"
ErrQuery == "registry query failed"
ErrSend == "messaging send failed"
ErrUpdate == "document update failed"
ErrNotFound == "no document to update"
ErrDocPath == "invalid document path"
ErrFetch == "fetch failed"
ErrJson == "invalid json"
ErrSubstring == "cannot read substring of undefined"

IdleInv ==
    [kind |-> NoValue, id |-> NoValue, pc |-> "idle", status |-> NoValue,
     responderId |-> NoValue, error |-> NoValue, summary |-> NoValue,
     incWrites |-> 0, respWrites |-> 0, notifs |-> 0, fetches |-> 0]

NewIncident(s) ==
    [status |-> s, dispatchedTo |-> NoValue, routeDuration |-> NoValue,
     dispatchMessage |-> NoValue, dispatchErrorMessage |-> NoValue,
     errorMessage |-> NoValue, geminiSummary |-> NoValue,
     visionInsights |-> NoValue, processingTimeMs |-> NoValue, analyzedAt |-> 0]

NewResponder(s, t) ==
    [status |-> s, currentIncidentId |-> NoValue, fcmToken |-> t]

\* The two files DataUploadForm lists when it is mounted.
SeedFiles ==
    <<[id |-> 1, status |-> "completed", progress |-> 100],
      [id |-> 2, status |-> "completed", progress |-> 100]>>

\* useState of DataUploadForm: no zone selected, no upload under way.
UploadInit ==
    [uploadedFiles |-> SeedFiles, selectedZone |-> "", intervals |-> {},
     timeouts |-> {}, accepted |-> 0]

\* mockVideoFeeds: the status of each feed.
FeedStatus ==
    [f \in {"cam-001", "cam-002", "cam-003", "cam-004"} |->
        CASE f = "cam-002" -> "recorded"
          [] f = "cam-004" -> "offline"
          [] OTHER -> "live"]

\* useState of VideoPlayer: the first feed, paused at 0, no interval started.
PlayerInit ==
    [selectedFeed |-> "cam-001", isPlaying |-> FALSE, currentTime |-> 0,
     intervals |-> {}, created |-> 0]

\* Incidents are created 'pending' upstream; an operator may have resolved one.
\* Responders are maintained by fleet tooling: R1 is available and has a device
\* token registered, R2 has none and is available or offline.
Init ==
    /\ \E s \in {"pending", "resolved"} :
          incidents = [i \in Incidents |->
                          NewIncident(IF i = "I2" THEN s ELSE "pending")]
    /\ \E s \in {"available", "offline"} :
          responders = [r \in Responders |->
                           IF r = "R1" THEN NewResponder("available", TRUE)
                                       ELSE NewResponder(s, FALSE)]
    /\ inv = [p \in Procs |-> IdleInv]
    /\ started = 0
    /\ upload = UploadInit
    /\ player = PlayerInit

\* DocumentReference.update(fields): sets the given fields, keeps the others.
UpdateDoc(coll, id, fields) == [coll EXCEPT ![id] = fields @@ @]

\* Mutant: an incident that was attempted before is not attempted again.
AlreadyHandled_AnyAttempt(s) ==
    s \in {"dispatched", "resolved", "pending_dispatch", "dispatch_failed"}

\* Mutant: the check forgets 'resolved'.
AlreadyHandled_DispatchedOnly(s) == s = "dispatched"

\* incidentData.status === 'dispatched' || incidentData.status === 'resolved'
AlreadyHandled(s) == s = "dispatched" \/ s = "resolved"

\* Mutant: no capacity is recorded as a failure.
PendingFields_AsFailure ==
    [status |-> "dispatch_failed", dispatchMessage |-> "No available responders."]

\* The fields of the update issued when no responder is available.
PendingFields ==
    [status |-> "pending_dispatch", dispatchMessage |-> "No available responders."]

\* Mutant: dispatchedTo is taken from a field the responder document lacks.
DispatchFields_NoAssignee(r) ==
    [status |-> "dispatched", dispatchedTo |-> NoValue,
     routeDuration |-> "5 minutes (simulated)"]

\* The fields of the incident update of a dispatch to responder r.
DispatchFields(r) ==
    [status |-> "dispatched", dispatchedTo |-> r,
     routeDuration |-> "5 minutes (simulated)"]

\* Mutant: the responder update sets currentIncidentId and leaves the status.
ResponderAssignment_NoStatus(id) == [currentIncidentId |-> id]

\* The fields of the responder update of a dispatch to incident id.
ResponderAssignment(id) == [status |-> "en_route", currentIncidentId |-> id]

\* Mutant: the failure is recorded under a status of its own.
DispatchFailureFields_Failed(msg) ==
    [status |-> "failed", dispatchErrorMessage |-> msg]

\* Mutant: the failure record withdraws the assignment.
DispatchFailureFields_ClearsAssignee(msg) ==
    [status |-> "dispatch_failed", dispatchErrorMessage |-> msg,
     dispatchedTo |-> NoValue]

\* The fields of the update issued from autoDispatch's catch block.
DispatchFailureFields(msg) ==
    [status |-> "dispatch_failed", dispatchErrorMessage |-> msg]

\* FieldValue.serverTimestamp() of a write to a document whose field held
\* prev: a later instant.  Instants are numbered per document, 0 = never set.
ServerTimestamp(prev) == prev + 1

\* geminiSummary when the response carries no candidate.
InconclusiveSummary == "AI analysis inconclusive or response format error."

\* Mutant: the update leaves out the processing duration.
AnalysisFields_NoDuration(summary, at) ==
    [status |-> "analyzed", visionInsights |-> "insights",
     geminiSummary |-> summary, analyzedAt |-> at]

\* The fields of the update that records the analysis.
AnalysisFields(summary, at) ==
    [status |-> "analyzed", visionInsights |-> "insights",
     geminiSummary |-> summary, processingTimeMs |-> "elapsed",
     analyzedAt |-> at]

\* The fields of the update issued from onNewIncident's catch block.
AnalysisFailureFields(msg, at) ==
    [status |-> "analysis_failed", errorMessage |-> msg, analyzedAt |-> at]

\* Mutant: the query excludes only offline responders.
Available_NotOffline == {r \in Responders : responders[r].status # "offline"}

\* where('status', '==', 'available')
Available == {r \in Responders : responders[r].status = "available"}

\* The handler of instance p moves on, with the given locals/effects changed.
Step(p, changes) ==
    /\ inv' = [inv EXCEPT ![p] = changes @@ @]
    /\ UNCHANGED <<started, upload, player>>

\* Positions at which a handler is waiting on a downstream call.
DispatchPcs ==
    {"read", "query", "write_pending", "notify", "write_incident",
     "write_responder", "catch"}
AnalysisPcs == {"a_fetch", "a_parse", "a_write", "a_catch"}
Running(p) == inv[p].pc \in DispatchPcs \cup AnalysisPcs

\* The runtime hands the next message to the first instance that is free.
Deliver(p, kind, id, pc) ==
    /\ ~Running(p)
    /\ \A q \in Procs : q < p => Running(q)
    /\ started < MaxInv
    /\ started' = started + 1
    /\ inv' = [inv EXCEPT ![p] = [kind |-> kind, id |-> id, pc |-> pc] @@ IdleInv]
    /\ UNCHANGED <<incidents, responders, upload, player>>

\* Mutant: the handler goes on to the read with whatever the payload holds.
TriggerDispatch_NoSkip(p, id) == Deliver(p, "dispatch", id, "read")

\* A message of topic dispatch-triggers: if (!incidentId) return null.
TriggerDispatch(p, id) ==
    Deliver(p, "dispatch", id, IF id = NoId THEN "skipped" ELSE "read")

\* Mutant: the handler goes on without the incidentDoc.exists check.
ReadIncident_NoExistsCheck(p) ==
    /\ inv[p].pc = "read"
    /\ \/ Step(p, [pc |-> "catch", error |-> ErrRead])
       \/ /\ inv[p].id \notin Incidents
          /\ Step(p, [pc |-> "query"])
       \/ /\ inv[p].id \in Incidents
          /\ LET s == incidents[inv[p].id].status IN
             Step(p, [status |-> s,
                      pc |-> IF AlreadyHandled(s) THEN "noop" ELSE "query"])
    /\ UNCHANGED <<incidents, responders>>

\* incidentRef.get(), then the exists and status checks.
ReadIncident(p) ==
    /\ inv[p].pc = "read"
    /\ \/ Step(p, [pc |-> "catch", error |-> ErrRead])
       \/ /\ inv[p].id \notin Incidents
          /\ Step(p, [pc |-> "not_found"])
       \/ /\ inv[p].id \in Incidents
          /\ LET s == incidents[inv[p].id].status IN
             Step(p, [status |-> s,
                      pc |-> IF AlreadyHandled(s) THEN "noop" ELSE "query"])
    /\ UNCHANGED <<incidents, responders>>

\* db.collection('responders').where(...).limit(1).get()
QueryResponders(p) ==
    /\ inv[p].pc = "query"
    /\ \/ Step(p, [pc |-> "catch", error |-> ErrQuery])
       \/ /\ Available = {}
          /\ Step(p, [pc |-> "write_pending", responderId |-> Empty])
       \/ \E r \in Available :
             Step(p, [pc |-> "notify", responderId |-> r])
    /\ UNCHANGED <<incidents, responders>>

\* incidentRef.update({status: 'pending_dispatch', ...}); return null
WritePending(p) ==
    /\ inv[p].pc = "write_pending"
    /\ \/ /\ Step(p, [pc |-> "catch", error |-> ErrUpdate])
          /\ UNCHANGED incidents
       \/ /\ incidents' = UpdateDoc(incidents, inv[p].id, PendingFields)
          /\ Step(p, [pc |-> "no_capacity", incWrites |-> inv[p].incWrites + 1])
    /\ UNCHANGED responders

\* Mutant: a rejected send is swallowed and the dispatch goes on.
Notify_SwallowsFailure(p) ==
    /\ inv[p].pc = "notify"
    /\ \/ /\ responders[inv[p].responderId].fcmToken
          /\ \/ Step(p, [pc |-> "write_incident"])
             \/ Step(p, [pc |-> "write_incident", notifs |-> inv[p].notifs + 1])
       \/ /\ ~responders[inv[p].responderId].fcmToken
          /\ Step(p, [pc |-> "write_incident"])
    /\ UNCHANGED <<incidents, responders>>

\* if (responderData.fcmToken) await admin.messaging().send(message).
\* Nothing writes fcmToken, so the snapshot's value is the document's.
Notify(p) ==
    /\ inv[p].pc = "notify"
    /\ \/ /\ responders[inv[p].responderId].fcmToken
          /\ \/ Step(p, [pc |-> "catch", error |-> ErrSend])
             \/ Step(p, [pc |-> "write_incident", notifs |-> inv[p].notifs + 1])
       \/ /\ ~responders[inv[p].responderId].fcmToken
          /\ Step(p, [pc |-> "write_incident"])
    /\ UNCHANGED <<incidents, responders>>

\* Mutant: the handler returns after the incident update, without the
\* responder update.
WriteIncident_SkipsResponder(p) ==
    /\ inv[p].pc = "write_incident"
    /\ \/ /\ Step(p, [pc |-> "catch", error |-> ErrUpdate])
          /\ UNCHANGED incidents
       \/ /\ incidents' = UpdateDoc(incidents, inv[p].id,
                                     DispatchFields(inv[p].responderId))
          /\ Step(p, [pc |-> "success", incWrites |-> inv[p].incWrites + 1])
    /\ UNCHANGED responders

\* incidentRef.update({status: 'dispatched', dispatchedTo: responderId, ...})
WriteIncident(p) ==
    /\ inv[p].pc = "write_incident"
    /\ \/ /\ Step(p, [pc |-> "catch", error |-> ErrUpdate])
          /\ UNCHANGED incidents
       \/ /\ incidents' = UpdateDoc(incidents, inv[p].id,
                                     DispatchFields(inv[p].responderId))
          /\ Step(p, [pc |-> "write_responder", incWrites |-> inv[p].incWrites + 1])
    /\ UNCHANGED responders

\* Mutant: the responder is taken only if it is still available.
WriteResponder_IfStillAvailable(p) ==
    /\ inv[p].pc = "write_responder"
    /\ \/ /\ Step(p, [pc |-> "catch", error |-> ErrUpdate])
          /\ UNCHANGED responders
       \/ /\ responders[inv[p].responderId].status # "available"
          /\ Step(p, [pc |-> "catch", error |-> "responder already taken"])
          /\ UNCHANGED responders
       \/ /\ responders[inv[p].responderId].status = "available"
          /\ responders' = UpdateDoc(responders, inv[p].responderId,
                                      ResponderAssignment(inv[p].id))
          /\ Step(p, [pc |-> "success", respWrites |-> inv[p].respWrites + 1])
    /\ UNCHANGED incidents

\* Mutant: the update goes to every responder that matches the query, not to
\* the one selected.
WriteResponder_AllAvailable(p) ==
    /\ inv[p].pc = "write_responder"
    /\ \/ /\ Step(p, [pc |-> "catch", error |-> ErrUpdate])
          /\ UNCHANGED responders
       \/ /\ responders' =
                [r \in Responders |->
                    IF r = inv[p].responderId \/ responders[r].status = "available"
                    THEN ResponderAssignment(inv[p].id) @@ responders[r]
                    ELSE responders[r]]
          /\ Step(p, [pc |-> "success", respWrites |-> inv[p].respWrites + 1])
    /\ UNCHANGED incidents

\* db.collection('responders').doc(responderId).update({status: 'en_route', ...})
WriteResponder(p) ==
    /\ inv[p].pc = "write_responder"
    /\ \/ /\ Step(p, [pc |-> "catch", error |-> ErrUpdate])
          /\ UNCHANGED responders
       \/ /\ responders' = UpdateDoc(responders, inv[p].responderId,
                                      ResponderAssignment(inv[p].id))
          /\ Step(p, [pc |-> "success", respWrites |-> inv[p].respWrites + 1])
    /\ UNCHANGED incidents

\* Mutant: the failure branch hands the selected responder back.
CatchDispatch_ReleasesResponder(p) ==
    /\ inv[p].pc = "catch"
    /\ \/ /\ Step(p, [pc |-> "threw",
                      error |-> IF inv[p].id \in Incidents
                                THEN ErrUpdate ELSE ErrNotFound])
          /\ UNCHANGED <<incidents, responders>>
       \/ /\ inv[p].id \in Incidents
          /\ incidents' = UpdateDoc(incidents, inv[p].id,
                                     DispatchFailureFields(inv[p].error))
          /\ responders' =
                IF inv[p].responderId \in Responders
                THEN UpdateDoc(responders, inv[p].responderId,
                               [status |-> "available", currentIncidentId |-> NoValue])
                ELSE responders
          /\ Step(p, [pc |-> "failed", incWrites |-> inv[p].incWrites + 1])

\* catch (error): update({status: 'dispatch_failed', dispatchErrorMessage, ...}).
\* The update is awaited outside any try: its rejection leaves the handler.
CatchDispatch(p) ==
    /\ inv[p].pc = "catch"
    /\ \/ /\ Step(p, [pc |-> "threw",
                      error |-> IF inv[p].id \in Incidents
                                THEN ErrUpdate ELSE ErrNotFound])
          /\ UNCHANGED incidents
       \/ /\ inv[p].id \in Incidents
          /\ incidents' = UpdateDoc(incidents, inv[p].id,
                                     DispatchFailureFields(inv[p].error))
          /\ Step(p, [pc |-> "failed", incWrites |-> inv[p].incWrites + 1])
    /\ UNCHANGED responders

\* A message of topic anomaly-triggers.  The simulated vision analysis and
\* its 2 s delay touch no state; the handler then waits on fetch().
TriggerAnalysis(p, id) == Deliver(p, "analysis", id, "a_fetch")

\* Mutant: a failed request is sent once more before the handler gives up.
Fetch_Retries(p) ==
    /\ inv[p].pc = "a_fetch"
    /\ \/ /\ inv[p].fetches = 0
          /\ Step(p, [pc |-> "a_fetch", fetches |-> inv[p].fetches + 1])
       \/ /\ inv[p].fetches > 0
          /\ Step(p, [pc |-> "a_catch", error |-> ErrFetch,
                       fetches |-> inv[p].fetches + 1])
       \/ Step(p, [pc |-> "a_parse", fetches |-> inv[p].fetches + 1])
    /\ UNCHANGED <<incidents, responders>>

\* await fetch(apiUrl, ...)
Fetch(p) ==
    /\ inv[p].pc = "a_fetch"
    /\ \/ Step(p, [pc |-> "a_catch", error |-> ErrFetch,
                    fetches |-> inv[p].fetches + 1])
       \/ Step(p, [pc |-> "a_parse", fetches |-> inv[p].fetches + 1])
    /\ UNCHANGED <<incidents, responders>>

\* await response.json(), the candidates test and geminiSummary.substring(0, 100)
ParseResponse(p) ==
    /\ inv[p].pc = "a_parse"
    /\ \/ Step(p, [pc |-> "a_catch", error |-> ErrJson])
       \/ Step(p, [pc |-> "a_write", summary |-> "candidate text"])
       \/ Step(p, [pc |-> "a_write", summary |-> InconclusiveSummary])
       \/ Step(p, [pc |-> "a_catch", error |-> ErrSubstring])
    /\ UNCHANGED <<incidents, responders>>

\* What update() on the incident document of the payload rejects with when no
\* such document can be written.
NoDocError(id) == IF id = NoId THEN ErrDocPath ELSE ErrNotFound

\* Mutant: an incident that is already analyzed is refused.
WriteAnalysis_OnceOnly(p) ==
    /\ inv[p].pc = "a_write"
    /\ \/ /\ Step(p, [pc |-> "a_catch",
                       error |-> IF inv[p].id \in Incidents
                                 THEN ErrUpdate ELSE NoDocError(inv[p].id)])
          /\ UNCHANGED incidents
       \/ /\ inv[p].id \in Incidents
          /\ incidents[inv[p].id].status = "analyzed"
          /\ Step(p, [pc |-> "a_catch", error |-> "already analyzed"])
          /\ UNCHANGED incidents
       \/ /\ inv[p].id \in Incidents
          /\ incidents[inv[p].id].status # "analyzed"
          /\ incidents' = UpdateDoc(incidents, inv[p].id,
                 AnalysisFields(inv[p].summary,
                                ServerTimestamp(incidents[inv[p].id].analyzedAt)))
          /\ Step(p, [pc |-> "a_done", incWrites |-> inv[p].incWrites + 1])
    /\ UNCHANGED responders

\* Mutant: the analysis of an incident that is dispatched keeps its status.
WriteAnalysis_KeepsDispatched(p) ==
    /\ inv[p].pc = "a_write"
    /\ \/ /\ Step(p, [pc |-> "a_catch",
                       error |-> IF inv[p].id \in Incidents
                                 THEN ErrUpdate ELSE NoDocError(inv[p].id)])
          /\ UNCHANGED incidents
       \/ /\ inv[p].id \in Incidents
          /\ incidents' = UpdateDoc(incidents, inv[p].id,
                 [status |-> IF incidents[inv[p].id].status = "dispatched"
                             THEN "dispatched" ELSE "analyzed"] @@
                 AnalysisFields(inv[p].summary,
                                ServerTimestamp(incidents[inv[p].id].analyzedAt)))
          /\ Step(p, [pc |-> "a_done", incWrites |-> inv[p].incWrites + 1])
    /\ UNCHANGED responders

\* db.collection('incidents').doc(incidentId).update({status: 'analyzed', ...})
WriteAnalysis(p) ==
    /\ inv[p].pc = "a_write"
    /\ \/ /\ Step(p, [pc |-> "a_catch",
                       error |-> IF inv[p].id \in Incidents
                                 THEN ErrUpdate ELSE NoDocError(inv[p].id)])
          /\ UNCHANGED incidents
       \/ /\ inv[p].id \in Incidents
          /\ incidents' = UpdateDoc(incidents, inv[p].id,
                 AnalysisFields(inv[p].summary,
                                ServerTimestamp(incidents[inv[p].id].analyzedAt)))
          /\ Step(p, [pc |-> "a_done", incWrites |-> inv[p].incWrites + 1])
    /\ UNCHANGED responders

\* catch (error): update({status: 'analysis_failed', errorMessage, ...}), awaited
\* outside any try.
CatchAnalysis(p) ==
    /\ inv[p].pc = "a_catch"
    /\ \/ /\ Step(p, [pc |-> "a_threw",
                       error |-> IF inv[p].id \in Incidents
                                 THEN ErrUpdate ELSE NoDocError(inv[p].id)])
          /\ UNCHANGED incidents
       \/ /\ inv[p].id \in Incidents
          /\ incidents' = UpdateDoc(incidents, inv[p].id,
                 AnalysisFailureFields(inv[p].error,
                                       ServerTimestamp(incidents[inv[p].id].analyzedAt)))
          /\ Step(p, [pc |-> "a_failed", incWrites |-> inv[p].incWrites + 1])
    /\ UNCHANGED responders

Next ==
    \E p \in Procs :
        \/ \E id \in TriggerIds : TriggerDispatch(p, id)
        \/ ReadIncident(p)
        \/ QueryResponders(p)
        \/ WritePending(p)
        \/ Notify(p)
        \/ WriteIncident(p)
        \/ WriteResponder(p)
        \/ CatchDispatch(p)
        \/ \E id \in TriggerIds : TriggerAnalysis(p, id)
        \/ Fetch(p)
        \/ ParseResponse(p)
        \/ WriteAnalysis(p)
        \/ CatchAnalysis(p)

Spec == Init /\ [][Next]_vars

\* The same handlers when the runtime delivers a message only after the
\* previous invocation has ended (no two invocations overlap).
Quiet == \A q \in Procs : ~Running(q)

SeqNext ==
    \E p \in Procs :
        \/ Quiet /\ \E id \in TriggerIds : TriggerDispatch(p, id)
        \/ ReadIncident(p)
        \/ QueryResponders(p)
        \/ WritePending(p)
        \/ Notify(p)
        \/ WriteIncident(p)
        \/ WriteResponder(p)
        \/ CatchDispatch(p)
        \/ Quiet /\ \E id \in TriggerIds : TriggerAnalysis(p, id)
        \/ Fetch(p)
        \/ ParseResponse(p)
        \/ WriteAnalysis(p)
        \/ CatchAnalysis(p)

SeqSpec == Init /\ [][SeqNext]_vars

\* The collections as earlier invocations and the fleet tooling have left them.
\* Either an attempt for I1 failed at the notification and I2 found no
\* responder, and both responders have been released since; or I2 is
\* dispatched to R2, which is en route to it.
LaterInit ==
    /\ \/ /\ incidents =
                [i \in Incidents |->
                    IF i = "I1"
                    THEN DispatchFailureFields(ErrSend) @@ NewIncident("pending")
                    ELSE PendingFields @@ NewIncident("pending")]
          /\ responders = [r \in Responders |-> NewResponder("available", r = "R1")]
       \/ /\ incidents =
                [i \in Incidents |->
                    IF i = "I1"
                    THEN NewIncident("pending")
                    ELSE DispatchFields("R2") @@ NewIncident("pending")]
          /\ responders =
                [r \in Responders |->
                    IF r = "R1"
                    THEN NewResponder("available", TRUE)
                    ELSE ResponderAssignment("I2") @@ NewResponder("available", FALSE)]
    /\ inv = [p \in Procs |-> IdleInv]
    /\ started = 0
    /\ upload = UploadInit
    /\ player = PlayerInit

LaterSpec == LaterInit /\ [][Next]_vars

\* The next step of instance p's handler: the downstream call it awaits
\* returns or throws.
HandlerStep(p) ==
    \/ ReadIncident(p)
    \/ QueryResponders(p)
    \/ WritePending(p)
    \/ Notify(p)
    \/ WriteIncident(p)
    \/ WriteResponder(p)
    \/ CatchDispatch(p)
    \/ Fetch(p)
    \/ ParseResponse(p)
    \/ WriteAnalysis(p)
    \/ CatchAnalysis(p)

\* Every downstream call a handler awaits eventually returns or throws.
FairSpec == Spec /\ \A p \in Procs : WF_vars(HandlerStep(p))

(***************************************************************************)
(* DataUploadForm (back-fe): the simulated upload of the files picked in   *)
(* the file dialog.  Timer delays are in units of 100 ms.                  *)
(***************************************************************************)

\* Files accepted over the life of the form.
MaxFiles == 2

\* setInterval(..., 300), setTimeout(..., 500), setTimeout(..., 2000)
UploadPeriod == 3
ProcessingDelay == 5
CompletionDelay == 20

\* Math.random() * 20, a value in [0, 20).
Increments == {5, 10, 15}

Min(a, b) == IF a < b THEN a ELSE b

\* The dispatch and analysis handlers are not involved.
BackendIdle ==
    /\ incidents = [i \in Incidents |-> NewIncident("pending")]
    /\ responders = [r \in Responders |-> NewResponder("available", r = "R1")]
    /\ inv = [p \in Procs |-> IdleInv]
    /\ started = 0

UploadFormInit == BackendIdle /\ upload = UploadInit /\ player = PlayerInit

\* simulateUpload(file, zone): the new file goes to the head of the list under
\* the id Date.now().toString(), and an interval is started for it.  sameMs:
\* the clock still shows the millisecond of the previous call.
SimulateUpload(u, sameMs) ==
    LET n == u.accepted + 1
        id == IF sameMs THEN Head(u.uploadedFiles).id ELSE Len(SeedFiles) + n
    IN  [u EXCEPT
           !.uploadedFiles = <<[id |-> id, status |-> "uploading", progress |-> 0]>> \o @,
           !.intervals = @ \cup {[owner |-> n, id |-> id, left |-> UploadPeriod]},
           !.accepted = n]

\* Array.from(files).forEach(file => ... simulateUpload(file, selectedZone))
RECURSIVE SimulateAll(_, _)
SimulateAll(u, sameMs) ==
    IF sameMs = <<>> THEN u
    ELSE SimulateAll(SimulateUpload(u, Head(sameMs)), Tail(sameMs))

\* <Select value={selectedZone} onValueChange={setSelectedZone}>
SetSelectedZone ==
    /\ \E z \in {"Zone Alpha-1", "Zone Beta-1"} :
          upload' = [upload EXCEPT !.selectedZone = z]
    /\ UNCHANGED <<incidents, responders, inv, started, player>>

\* handleFileSelect and handleFileChange: with a zone selected, the dialog
\* returns files of which n pass the type and size checks; each is handed to
\* simulateUpload in turn, the first in a millisecond of its own.
HandleFileChange ==
    /\ upload.selectedZone # ""
    /\ \E n \in 1..(MaxFiles - upload.accepted) :
          \E sameMs \in [1..n -> BOOLEAN] :
              /\ ~sameMs[1]
              /\ upload' = SimulateAll(upload, sameMs)
    /\ UNCHANGED <<incidents, responders, inv, started, player>>

\* The callback of the interval iv: every listed file with the interval's id
\* that is uploading advances by a random amount, to 100 at most; a file that
\* reaches 100 becomes processing, the interval is cleared and the 500 ms
\* timeout is set.
IntervalTick(iv) ==
    /\ iv \in upload.intervals
    /\ iv.left = 0
    /\ LET files == upload.uploadedFiles
           Hit(i) == files[i].id = iv.id /\ files[i].status = "uploading"
       IN  \E inc \in [1..Len(files) -> Increments] :
              LET newProgress(i) == Min(files[i].progress + inc[i], 100)
                  done == \E i \in 1..Len(files) : Hit(i) /\ newProgress(i) >= 100
              IN  upload' =
                    [upload EXCEPT
                       !.uploadedFiles =
                           [i \in 1..Len(files) |->
                               IF ~Hit(i) THEN files[i]
                               ELSE IF newProgress(i) >= 100
                                    THEN [files[i] EXCEPT !.progress = 100,
                                                          !.status = "processing"]
                                    ELSE [files[i] EXCEPT !.progress = newProgress(i)]],
                       !.intervals =
                           IF done THEN @ \ {iv}
                           ELSE (@ \ {iv}) \cup {[iv EXCEPT !.left = UploadPeriod]},
                       !.timeouts =
                           IF done
                           THEN @ \cup {[kind |-> "processing", id |-> iv.id,
                                         left |-> ProcessingDelay]}
                           ELSE @]
    /\ UNCHANGED <<incidents, responders, inv, started, player>>

\* The callbacks of the two timeouts: every listed file with the id becomes
\* processing, and 2 s later completed.
TimeoutFires(t) ==
    /\ t \in upload.timeouts
    /\ t.left = 0
    /\ LET files == upload.uploadedFiles IN
       upload' =
         [upload EXCEPT
            !.uploadedFiles =
                [i \in 1..Len(files) |->
                    IF files[i].id = t.id
                    THEN [files[i] EXCEPT !.status = t.kind]
                    ELSE files[i]],
            !.timeouts =
                IF t.kind = "processing"
                THEN (@ \ {t}) \cup {[kind |-> "completed", id |-> t.id,
                                      left |-> CompletionDelay]}
                ELSE @ \ {t}]
    /\ UNCHANGED <<incidents, responders, inv, started, player>>

\* 100 ms pass; a timer that is due fires first.
Elapse ==
    /\ upload.intervals \cup upload.timeouts # {}
    /\ \A t \in upload.intervals \cup upload.timeouts : t.left > 0
    /\ upload' = [upload EXCEPT
                    !.intervals = {[iv EXCEPT !.left = @ - 1] : iv \in @},
                    !.timeouts = {[t EXCEPT !.left = @ - 1] : t \in @}]
    /\ UNCHANGED <<incidents, responders, inv, started, player>>

\* removeFile(fileId), offered on completed files: prev.filter(f => f.id !== fileId)
RemoveFile(i) ==
    /\ i \in 1..Len(upload.uploadedFiles)
    /\ upload.uploadedFiles[i].status = "completed"
    /\ upload' = [upload EXCEPT
                    !.uploadedFiles =
                        SelectSeq(@, LAMBDA f : f.id # upload.uploadedFiles[i].id)]
    /\ UNCHANGED <<incidents, responders, inv, started, player>>

TimerFires ==
    \/ \E iv \in upload.intervals : IntervalTick(iv)
    \/ \E t \in upload.timeouts : TimeoutFires(t)

UploadNext ==
    \/ SetSelectedZone
    \/ HandleFileChange
    \/ TimerFires
    \/ Elapse
    \/ \E i \in 1..(MaxFiles + Len(SeedFiles)) : RemoveFile(i)

\* Time passes and timers that are due fire.
UploadSpec ==
    UploadFormInit /\ [][UploadNext]_vars /\ WF_vars(TimerFires) /\ WF_vars(Elapse)

(***************************************************************************)
(* VideoPlayer (back-fe): the simulated playback of a recorded feed.  Time  *)
(* is in seconds.                                                           *)
(***************************************************************************)

\* Intervals started over the life of the player.
MaxIntervals == 2

\* useState(165): 2:45 in seconds
duration == 165

PlayerFormInit == BackendIdle /\ upload = UploadInit /\ player = PlayerInit

\* handlePlayPause: isPlaying is toggled; when a recorded feed starts playing
\* an interval of 1000 ms is set, which first fires a second later.
HandlePlayPause ==
    /\ \/ /\ FeedStatus[player.selectedFeed] = "recorded" /\ ~player.isPlaying
          /\ player.created < MaxIntervals
          /\ player' = [player EXCEPT
                          !.isPlaying = TRUE,
                          !.created = @ + 1,
                          !.intervals = @ \cup {[n |-> player.created + 1,
                                                 phase |-> "new"]}]
       \/ /\ ~(FeedStatus[player.selectedFeed] = "recorded" /\ ~player.isPlaying)
          /\ player' = [player EXCEPT !.isPlaying = ~@]
    /\ UNCHANGED <<incidents, responders, inv, started, upload>>

\* The interval's callback: the position advances by 1; at the end of the
\* recording playback stops and the interval is cleared.
PlaybackTick(iv) ==
    /\ iv \in player.intervals
    /\ iv.phase = "due"
    /\ IF player.currentTime >= duration
       THEN player' = [player EXCEPT !.isPlaying = FALSE, !.intervals = @ \ {iv}]
       ELSE player' = [player EXCEPT
                         !.currentTime = @ + 1,
                         !.intervals = (@ \ {iv}) \cup {[iv EXCEPT !.phase = "fired"]}]
    /\ UNCHANGED <<incidents, responders, inv, started, upload>>

\* A second passes: every interval that was due has fired.
SecondPasses ==
    /\ player.intervals # {}
    /\ \A iv \in player.intervals : iv.phase # "due"
    /\ player' = [player EXCEPT !.intervals = {[iv EXCEPT !.phase = "due"] : iv \in @}]
    /\ UNCHANGED <<incidents, responders, inv, started, upload>>

\* onValueChange of the feed selector: setSelectedFeed(feed),
\* setIsPlaying(false), setCurrentTime(0)
SelectFeed(f) ==
    /\ player' = [player EXCEPT !.selectedFeed = f, !.isPlaying = FALSE,
                                !.currentTime = 0]
    /\ UNCHANGED <<incidents, responders, inv, started, upload>>

\* The restart button: onClick={() => setCurrentTime(0)}
Restart ==
    /\ player.currentTime # 0
    /\ player' = [player EXCEPT !.currentTime = 0]
    /\ UNCHANGED <<incidents, responders, inv, started, upload>>

PlayerNext ==
    \/ HandlePlayPause
    \/ \E iv \in player.intervals : PlaybackTick(iv)
    \/ SecondPasses
    \/ \E f \in DOMAIN FeedStatus : SelectFeed(f)
    \/ Restart

PlayerSpec == PlayerFormInit /\ [][PlayerNext]_vars

(***************************************************************************)
(* Properties of the handlers.                                            *)
(***************************************************************************)

Dispatch(p) == inv[p].kind = "dispatch"
Handled(s) == s \in {"dispatched", "resolved"}
Ended(p) == inv[p].pc # "idle" /\ ~Running(p)

\* Instance p's handler takes a step from position pc.
StepsFrom(p, pc) == inv[p].pc = pc /\ inv'[p] # inv[p]

\* C1: an invocation of autoDispatch that read the incident as dispatched or
\* resolved has ended on the spot, with no incident write, no responder write
\* and no notification.
C1_NoOpWhenHandled ==
    \A p \in Procs :
        Dispatch(p) /\ Handled(inv[p].status) =>
            /\ inv[p].pc = "noop"
            /\ inv[p].incWrites = 0
            /\ inv[p].respWrites = 0
            /\ inv[p].notifs = 0

\* A redelivered trigger found its incident dispatched by an earlier invocation.
C1_Witness ==
    \E p \in Procs :
        /\ Dispatch(p) /\ inv[p].pc = "noop"
        /\ inv[p].status = "dispatched"
        /\ incidents[inv[p].id].dispatchedTo \in Responders

\* What one step of a dispatch invocation may change.
C2_DispatchStep(p) ==
    LET I == inv[p].id
        R == inv[p].responderId
    IN  /\ inv[p].pc \in {"read", "query", "notify"} /\ inv'[p] # inv[p] =>
              incidents' = incidents /\ responders' = responders
        /\ StepsFrom(p, "write_incident") /\ inv'[p].pc = "write_responder" =>
              /\ ~Handled(incidents[I].status)
              /\ incidents'[I].status = "dispatched"
              /\ incidents'[I].dispatchedTo = R
              /\ \A j \in Incidents \ {I} : incidents'[j] = incidents[j]
              /\ responders' = responders
        /\ StepsFrom(p, "write_responder") /\ inv'[p].pc = "success" =>
              /\ responders[R].status = "available"
              /\ responders'[R].status = "en_route"
              /\ responders'[R].currentIncidentId = I
              /\ \A r \in Responders \ {R} : responders'[r] = responders[r]
              /\ incidents' = incidents
              /\ incidents'[I].status = "dispatched"
              /\ incidents'[I].dispatchedTo = R
              /\ inv'[p].incWrites = 1 /\ inv'[p].respWrites = 1

C3_NoRedispatch ==
    [][\A p \in Procs :
          Dispatch(p) /\ inv[p].id \in Incidents
          /\ Handled(incidents[inv[p].id].status) =>
              /\ ~(StepsFrom(p, "query") /\ inv'[p].pc = "notify")
              /\ ~(StepsFrom(p, "notify") /\ inv'[p].notifs > inv[p].notifs)
              /\ ~(StepsFrom(p, "write_incident") /\ inv'[p].pc = "write_responder")]_vars

\* C4 as stated: an invocation whose registry query returned no responder
\* writes pending_dispatch, touches no responder, sends nothing and never
\* enters the failure branch.
C4_NoCapacityNeverFails ==
    \A p \in Procs :
        Dispatch(p) /\ inv[p].responderId = Empty =>
            /\ inv[p].pc \in {"write_pending", "no_capacity"}
            /\ inv[p].respWrites = 0
            /\ inv[p].notifs = 0

\* Where an invocation that found no responder can be, and what it has done.
C4_NoCapacityState(p) ==
    Dispatch(p) /\ inv[p].responderId = Empty =>
        /\ inv[p].respWrites = 0
        /\ inv[p].notifs = 0
        /\ inv[p].pc \in {"write_pending", "no_capacity", "catch", "failed", "threw"}
        /\ inv[p].pc = "catch" => inv[p].error = ErrUpdate /\ inv[p].incWrites = 0
        /\ inv[p].pc = "no_capacity" => inv[p].incWrites = 1

\* The step that issues the pending_dispatch update.
C4_NoCapacityStep(p) ==
    StepsFrom(p, "write_pending") =>
        /\ inv[p].responderId = Empty
        /\ responders' = responders
        /\ \/ /\ inv'[p].pc = "no_capacity"
              /\ incidents'[inv[p].id].status = "pending_dispatch"
              /\ incidents'[inv[p].id].dispatchMessage = "No available responders."
              /\ \A j \in Incidents \ {inv[p].id} : incidents'[j] = incidents[j]
           \/ /\ inv'[p].pc = "catch"
              /\ incidents' = incidents

\* C4 (amended): an invocation whose registry query returned no responder
\* issues one incident update, which sets pending_dispatch and the diagnostic
\* message and ends the invocation without error; it writes no responder and
\* sends no notification; it enters the failure branch only when that update
\* itself rejects, and then the update has changed nothing.
C4_NoCapacity ==
    /\ [](\A p \in Procs : C4_NoCapacityState(p))
    /\ [][\A p \in Procs : C4_NoCapacityStep(p)]_vars

C4_Witness ==
    \E p \in Procs :
        /\ Dispatch(p) /\ inv[p].pc = "no_capacity"
        /\ inv[p].responderId = Empty
        /\ incidents[inv[p].id].status = "pending_dispatch"

\* C5: when the notification send rejected, the invocation ends with its
\* incident in dispatch_failed and an error message recorded, having written
\* neither 'dispatched' nor any responder.
C5_NotifyFailureRecorded ==
    [][\A p \in Procs :
          Dispatch(p) /\ inv[p].error = ErrSend /\ Running(p) /\ ~Running(p)' =>
              /\ incidents'[inv[p].id].status = "dispatch_failed"
              /\ incidents'[inv[p].id].dispatchErrorMessage \notin {NoValue, ""}
              /\ inv'[p].incWrites = 1
              /\ inv'[p].respWrites = 0
              /\ responders' = responders]_vars

\* C6: whichever downstream call rejected, the invocation ends with its
\* incident marked dispatch_failed and the error's message recorded.
C6_AnyFailureRecorded ==
    [][\A p \in Procs :
          Dispatch(p) /\ inv[p].id \in Incidents /\ StepsFrom(p, "catch") =>
              /\ incidents'[inv[p].id].status = "dispatch_failed"
              /\ incidents'[inv[p].id].dispatchErrorMessage = inv[p].error]_vars

\* C7 as stated: every ended invocation of autoDispatch has written the
\* incident exactly once, a responder at most once and sent at most one
\* notification.
C7_ExactlyOneIncidentWrite ==
    \A p \in Procs :
        Dispatch(p) /\ Ended(p) =>
            /\ inv[p].incWrites = 1
            /\ inv[p].respWrites <= 1
            /\ inv[p].notifs <= 1

\* The writes and notifications of invocation p, by the path it took.
C7_Counts(p) ==
    Dispatch(p) =>
        /\ inv[p].incWrites <= 2
        /\ inv[p].respWrites <= 1
        /\ inv[p].notifs <= 1
        /\ inv[p].pc \in {"skipped", "not_found", "noop"} =>
              inv[p].incWrites = 0 /\ inv[p].respWrites = 0 /\ inv[p].notifs = 0
        /\ inv[p].pc = "no_capacity" =>
              inv[p].incWrites = 1 /\ inv[p].respWrites = 0 /\ inv[p].notifs = 0
        /\ inv[p].pc = "success" => inv[p].incWrites = 1 /\ inv[p].respWrites = 1
        /\ inv[p].pc = "failed" => inv[p].incWrites \in {1, 2}
        /\ inv[p].pc = "threw" => inv[p].incWrites <= 1

\* A collection changes only by a write that its invocation counts.
C7_Counted ==
    /\ incidents' # incidents =>
          \E p \in Procs : inv'[p].incWrites = inv[p].incWrites + 1
    /\ responders' # responders =>
          \E p \in Procs : inv'[p].respWrites = inv[p].respWrites + 1

\* C7 (amended): an invocation of autoDispatch writes the incident at most
\* twice, a responder at most once and sends at most one notification: nothing
\* at all on the skip, not-found and already-handled paths, one incident write
\* on the no-capacity path, one incident and one responder write on the
\* success path, one or two incident writes when the failure branch's update
\* succeeds.  Every change of a collection is one counted write of one
\* invocation.
C7_WriteCounts ==
    /\ [](\A p \in Procs : C7_Counts(p))
    /\ [][C7_Counted]_vars

\* The responder update rejected after the incident was written: two incident
\* writes in one invocation.
C7_Witness ==
    \E p \in Procs :
        /\ Dispatch(p) /\ inv[p].pc = "failed"
        /\ inv[p].incWrites = 2
        /\ inv[p].notifs = 1

\* C8: an incident marked dispatched to R is never seen while R is not
\* en_route for it.
C8_AtomicDualWrite ==
    \A i \in Incidents :
        incidents[i].status = "dispatched" =>
            /\ incidents[i].dispatchedTo \in Responders
            /\ responders[incidents[i].dispatchedTo].status = "en_route"
            /\ responders[incidents[i].dispatchedTo].currentIncidentId = i

\* C9: a responder whose status is available has no currentIncidentId.
C9_AvailableUnassigned ==
    \A r \in Responders :
        responders[r].status = "available" =>
            responders[r].currentIncidentId = NoValue

\* A dispatch has assigned one responder while another is still available.
C9_Witness ==
    \E p \in Procs, r \in Responders :
        /\ Dispatch(p) /\ inv[p].pc = "success"
        /\ responders[inv[p].responderId].currentIncidentId = inv[p].id
        /\ responders[r].status = "available"

\* C10: no invocation of either handler ends by rejecting.
C10_NoErrorPropagates ==
    \A p \in Procs : inv[p].pc \notin {"threw", "a_threw"}

\* C11: an invocation of autoDispatch whose incident id has no document never
\* queries the registry, selects no responder, sends no notification and
\* writes nothing: every step it takes leaves both collections as they were,
\* and once the read has answered it has returned.
C11_MissingIncident ==
    /\ [](\A p \in Procs :
            Dispatch(p) /\ inv[p].id = MissingId =>
                /\ inv[p].pc \in {"read", "not_found", "catch", "threw"}
                /\ inv[p].pc \in {"catch", "threw"} =>
                      inv[p].error \in {ErrRead, ErrNotFound}
                /\ inv[p].responderId = NoValue
                /\ inv[p].incWrites = 0
                /\ inv[p].respWrites = 0
                /\ inv[p].notifs = 0)
    /\ [][\A p \in Procs :
            Dispatch(p) /\ inv[p].id = MissingId /\ inv'[p] # inv[p] /\ Running(p) =>
                incidents' = incidents /\ responders' = responders]_vars

\* The read found no document while a responder was available.
C11_Witness ==
    \E p \in Procs :
        /\ Dispatch(p) /\ inv[p].id = MissingId
        /\ inv[p].pc = "not_found"
        /\ Available # {}

Analysis(p) == inv[p].kind = "analysis"

\* The summary service failed invocation p: the request was rejected, the
\* body was not JSON, or the JSON did not have the expected structure.
ServiceFailed(p) ==
    \/ inv[p].error \in {ErrFetch, ErrJson, ErrSubstring}
    \/ inv[p].summary = InconclusiveSummary

\* C13: an invocation of onNewIncident that the summary service failed, and
\* that returns, ends with its incident in analysis_failed and the error
\* message recorded, never in analyzed.  (An invocation that ends by rejecting
\* records nothing: that case is C10's.)
C13_ServiceFailureRecorded ==
    [][\A p \in Procs :
          Analysis(p) /\ inv[p].id \in Incidents /\ ServiceFailed(p)
          /\ Running(p) /\ ~Running(p)' /\ inv'[p].pc # "a_threw" =>
              /\ incidents'[inv[p].id].status = "analysis_failed"
              /\ incidents'[inv[p].id].errorMessage # NoValue]_vars

\* C14: an invocation of onNewIncident that meets no exception makes one
\* incident write, its last step, which records the insights, the summary it
\* obtained and the processing duration and sets the status to analyzed; it
\* changes no other document.
C14_AnalysisRecorded ==
    /\ [](\A p \in Procs :
            Analysis(p) =>
                /\ inv[p].pc \in {"a_fetch", "a_parse", "a_write"} => inv[p].incWrites = 0
                /\ inv[p].pc = "a_done" =>
                      inv[p].incWrites = 1 /\ inv[p].error = NoValue)
    /\ [][\A p \in Procs :
            StepsFrom(p, "a_write") /\ inv'[p].pc = "a_done" =>
                /\ incidents'[inv[p].id].status = "analyzed"
                /\ incidents'[inv[p].id].visionInsights = "insights"
                /\ incidents'[inv[p].id].geminiSummary = inv[p].summary
                /\ inv[p].summary # NoValue
                /\ incidents'[inv[p].id].processingTimeMs # NoValue
                /\ incidents'[inv[p].id].analyzedAt > incidents[inv[p].id].analyzedAt
                /\ \A j \in Incidents \ {inv[p].id} : incidents'[j] = incidents[j]
                /\ responders' = responders]_vars

C14_Witness ==
    \E p \in Procs :
        /\ Analysis(p) /\ inv[p].pc = "a_done"
        /\ incidents[inv[p].id].status = "analyzed"
        /\ incidents[inv[p].id].geminiSummary = "candidate text"
        /\ incidents[inv[p].id].processingTimeMs # NoValue

\* C15: the analysis update does not depend on what the incident holds: unless
\* the update itself is rejected by the store, it succeeds and leaves the
\* status analyzed, also on an incident that is already analyzed; a second run
\* with the same summary leaves the document as the first did, with a later
\* analyzedAt.
C15_ReanalysisAccepted ==
    [][\A p \in Procs :
          Analysis(p) /\ inv[p].id \in Incidents /\ StepsFrom(p, "a_write") =>
              \/ /\ inv'[p].pc = "a_done"
                 /\ incidents'[inv[p].id].status = "analyzed"
                 /\ (/\ incidents[inv[p].id].status = "analyzed"
                     /\ incidents[inv[p].id].geminiSummary = inv[p].summary)
                    => incidents'[inv[p].id] =
                          [incidents[inv[p].id] EXCEPT !.analyzedAt = @ + 1]
              \/ /\ inv'[p].pc = "a_catch"
                 /\ inv'[p].error = ErrUpdate
                 /\ incidents' = incidents]_vars

\* Two runs on the same incident, neither failed: the second has finished.
C15_Witness ==
    \E p \in Procs :
        /\ Analysis(p) /\ inv[p].pc = "a_done"
        /\ incidents[inv[p].id].status = "analyzed"
        /\ incidents[inv[p].id].analyzedAt = 2
        /\ incidents[inv[p].id].errorMessage = NoValue

\* C16: the responder update is unconditional (last writer wins): unless the
\* store rejects it, it sets the responder en_route for the writer's incident
\* whatever the responder holds by then, also when another invocation has
\* taken the same responder in the meantime.
C16_LastWriterWins ==
    [][\A p \in Procs :
          Dispatch(p) /\ StepsFrom(p, "write_responder") =>
              \/ /\ inv'[p].pc = "success"
                 /\ responders'[inv[p].responderId].status = "en_route"
                 /\ responders'[inv[p].responderId].currentIncidentId = inv[p].id
              \/ /\ inv'[p].pc = "catch"
                 /\ inv'[p].error = ErrUpdate
                 /\ responders' = responders]_vars

\* The race: two invocations for different incidents selected the same
\* responder; both ended in success, both incidents are dispatched to it and
\* it is en_route for the one written last.
C16_Witness ==
    \E p, q \in Procs :
        /\ p # q /\ Dispatch(p) /\ Dispatch(q)
        /\ inv[p].pc = "success" /\ inv[q].pc = "success"
        /\ inv[p].id # inv[q].id
        /\ inv[p].responderId = inv[q].responderId
        /\ incidents[inv[p].id].status = "dispatched"
        /\ incidents[inv[q].id].status = "dispatched"
        /\ incidents[inv[p].id].dispatchedTo = inv[p].responderId
        /\ incidents[inv[q].id].dispatchedTo = inv[p].responderId
        /\ responders[inv[p].responderId].currentIncidentId = inv[q].id

\* C17: when no invocation is in progress, a responder that is en_route or
\* busy for an incident is the one that incident is dispatched to, and an
\* incident that is dispatched is dispatched to a responder that is en_route
\* for it.
C17_StoresConsistent ==
    Quiet =>
        /\ \A r \in Responders :
              /\ responders[r].status \in {"en_route", "busy"}
              /\ responders[r].currentIncidentId \in Incidents
              => /\ incidents[responders[r].currentIncidentId].status = "dispatched"
                 /\ incidents[responders[r].currentIncidentId].dispatchedTo = r
        /\ \A i \in Incidents :
              incidents[i].status = "dispatched" =>
                  /\ incidents[i].dispatchedTo \in Responders
                  /\ responders[incidents[i].dispatchedTo].status = "en_route"
                  /\ responders[incidents[i].dispatchedTo].currentIncidentId = i

C19_OwnDocumentsOnly ==
    [][\A p \in Procs :
          inv'[p] # inv[p] =>
              /\ \A j \in Incidents \ {inv[p].id} : incidents'[j] = incidents[j]
              /\ ~Running(p) => incidents' = incidents /\ responders' = responders
              /\ Analysis(p) => responders' = responders
              /\ Dispatch(p) /\ inv[p].pc # "write_responder" => responders' = responders
              /\ Dispatch(p) /\ inv[p].pc = "write_responder" =>
                    \A r \in Responders \ {inv[p].responderId} :
                        responders'[r] = responders[r]]_vars

\* A dispatch has succeeded; the other incident and the other responder are
\* as they were created.
C19_Witness ==
    \E p \in Procs, j \in Incidents, r \in Responders :
        /\ Dispatch(p) /\ inv[p].pc = "success"
        /\ j # inv[p].id /\ r # inv[p].responderId
        /\ incidents[j] = NewIncident("pending")
        /\ responders[r] = NewResponder("available", FALSE)
        /\ responders[inv[p].responderId].currentIncidentId = inv[p].id

\* The number of awaited calls that are still ahead of a handler at a
\* position, at most.
StepsLeft(pc) ==
    CASE pc = "read" -> 7
      [] pc = "query" -> 6
      [] pc = "notify" -> 5
      [] pc = "write_incident" -> 4
      [] pc = "write_responder" -> 3
      [] pc = "write_pending" -> 2
      [] pc = "catch" -> 1
      [] pc = "a_fetch" -> 4
      [] pc = "a_parse" -> 3
      [] pc = "a_write" -> 2
      [] pc = "a_catch" -> 1
      [] OTHER -> 0

\* C20: when every awaited call eventually returns or throws, every
\* invocation ends (of the finitely many messages delivered, from some point
\* on none is in progress any more); each step of an invocation brings it
\* nearer to its end (at most seven awaited calls for autoDispatch, four for
\* onNewIncident), and it sends at most one notification and at most one
\* summary-service request.
C20_Terminates ==
    /\ <>[]Quiet
    /\ [][\A p \in Procs :
            Running(p) /\ inv'[p] # inv[p] =>
                StepsLeft(inv'[p].pc) < StepsLeft(inv[p].pc)]_vars
    /\ [](\A p \in Procs : inv[p].notifs <= 1 /\ inv[p].fetches <= 1)

\* A dispatch ended after a notification was sent and a failure followed; an
\* analysis ended after its one request.
C20_Witness ==
    \E p, q \in Procs :
        /\ Dispatch(p) /\ inv[p].pc = "failed" /\ inv[p].notifs = 1
        /\ Analysis(q) /\ inv[q].pc \in {"a_done", "a_failed"} /\ inv[q].fetches = 1

\* The statuses autoDispatch writes.
DispatchStatuses == {"pending_dispatch", "dispatched", "dispatch_failed"}

\* C21: an invocation of autoDispatch that reads its incident as
\* pending_dispatch or dispatch_failed goes on to the registry query (the
\* incident is not treated as handled), and when a responder is found and no
\* call fails its incident update sets the incident dispatched to that
\* responder; an incident's status, assignee and dispatch messages change only
\* in a step of an invocation that was delivered for that incident, and a
\* dispatch status is written only by an invocation of autoDispatch.
C21_RetryByRedelivery ==
    [][/\ \A p \in Procs :
            /\ /\ Dispatch(p) /\ StepsFrom(p, "read") /\ inv[p].id \in Incidents
               /\ incidents[inv[p].id].status \in {"pending_dispatch", "dispatch_failed"}
               => \/ /\ inv'[p].pc = "query"
                     /\ inv'[p].status = incidents[inv[p].id].status
                  \/ inv'[p].pc = "catch" /\ inv'[p].error = ErrRead
            /\ /\ Dispatch(p) /\ StepsFrom(p, "write_incident")
               /\ inv[p].status \in {"pending_dispatch", "dispatch_failed"}
               => \/ /\ inv'[p].pc = "write_responder"
                     /\ incidents'[inv[p].id].status = "dispatched"
                     /\ incidents'[inv[p].id].dispatchedTo = inv[p].responderId
                  \/ /\ inv'[p].pc = "catch" /\ inv'[p].error = ErrUpdate
                     /\ incidents' = incidents
       /\ \A i \in Incidents :
            incidents'[i] # incidents[i] =>
                \E p \in Procs :
                    /\ Running(p) /\ inv[p].id = i /\ inv'[p] # inv[p]
                    /\ /\ incidents'[i].status \in DispatchStatuses
                       /\ incidents'[i].status # incidents[i].status
                       => Dispatch(p)]_vars

\* Both retries succeeded: one invocation read its incident as
\* pending_dispatch, the other as dispatch_failed, and both incidents are
\* dispatched.
C21_Witness ==
    \E p, q \in Procs :
        /\ Dispatch(p) /\ inv[p].pc = "success" /\ inv[p].status = "pending_dispatch"
        /\ Dispatch(q) /\ inv[q].pc = "success" /\ inv[q].status = "dispatch_failed"
        /\ incidents[inv[p].id].status = "dispatched"
        /\ incidents[inv[q].id].status = "dispatched"
        /\ incidents[inv[p].id].dispatchedTo = inv[p].responderId
        /\ incidents[inv[q].id].dispatchedTo = inv[q].responderId

IncidentStatuses ==
    {"pending", "pending_dispatch", "dispatched", "analyzed", "resolved",
     "analysis_failed", "dispatch_failed"}
ResponderStatuses == {"available", "en_route", "busy", "offline"}

\* C22: every incident's status is one of pending, pending_dispatch,
\* dispatched, analyzed, resolved, analysis_failed, dispatch_failed and every
\* responder's status one of available, en_route, busy, offline; a step that
\* changes an incident document leaves its status pending_dispatch,
\* dispatched, dispatch_failed, analyzed or analysis_failed, and a step that
\* changes a responder document leaves its status en_route.
C22_StatusTypes ==
    /\ [](/\ \A i \in Incidents : incidents[i].status \in IncidentStatuses
          /\ \A r \in Responders : responders[r].status \in ResponderStatuses)
    /\ [][/\ \A i \in Incidents :
               incidents'[i] # incidents[i] =>
                   incidents'[i].status \in
                       DispatchStatuses \cup {"analyzed", "analysis_failed"}
          /\ \A r \in Responders :
               responders'[r] # responders[r] =>
                   responders'[r].status = "en_route"]_vars

\* One incident is dispatched to a responder that is en route, the other has
\* a failed analysis on record.
C22_Witness ==
    \E i, j \in Incidents, r \in Responders :
        /\ incidents[i].status = "dispatched"
        /\ incidents[i].dispatchedTo = r
        /\ incidents[j].status = "analysis_failed"
        /\ responders[r].status = "en_route"

\* C23: when invocations run one after another, no two incidents with status
\* dispatched have the same dispatchedTo.
C23_OneIncidentPerResponder ==
    \A i, j \in Incidents :
        /\ i # j
        /\ incidents[i].status = "dispatched"
        /\ incidents[j].status = "dispatched"
        => incidents[i].dispatchedTo # incidents[j].dispatchedTo

\* C24: the updates of onNewIncident set the incident's status to analyzed,
\* or to analysis_failed from the catch block, whatever it was, and leave
\* dispatchedTo and every responder as they were; an invocation of
\* autoDispatch that reads the incident as analyzed or analysis_failed goes on
\* to the registry query even when the incident has an assignee, and its
\* updates then replace the assignee and send the newly selected responder en
\* route while the earlier one stays as it was.
C24_AnalysisOverwritesDispatch ==
    [][\A p \in Procs :
          inv[p].id \in Incidents =>
              /\ Analysis(p) /\ StepsFrom(p, "a_write") /\ inv'[p].pc = "a_done" =>
                    /\ incidents'[inv[p].id].status = "analyzed"
                    /\ incidents'[inv[p].id].dispatchedTo = incidents[inv[p].id].dispatchedTo
                    /\ responders' = responders
              /\ Analysis(p) /\ StepsFrom(p, "a_catch") /\ inv'[p].pc = "a_failed" =>
                    /\ incidents'[inv[p].id].status = "analysis_failed"
                    /\ incidents'[inv[p].id].dispatchedTo = incidents[inv[p].id].dispatchedTo
                    /\ responders' = responders
              /\ /\ Dispatch(p) /\ StepsFrom(p, "read")
                 /\ incidents[inv[p].id].status \in {"analyzed", "analysis_failed"}
                 => inv'[p].pc = "query" \/ (inv'[p].pc = "catch" /\ inv'[p].error = ErrRead)
              /\ /\ Dispatch(p) /\ inv[p].status \in {"analyzed", "analysis_failed"}
                 /\ StepsFrom(p, "write_incident") /\ inv'[p].pc = "write_responder"
                 => /\ incidents'[inv[p].id].status = "dispatched"
                    /\ incidents'[inv[p].id].dispatchedTo = inv[p].responderId
              /\ /\ Dispatch(p) /\ inv[p].status \in {"analyzed", "analysis_failed"}
                 /\ StepsFrom(p, "write_responder") /\ inv'[p].pc = "success"
                 => /\ responders'[inv[p].responderId].currentIncidentId = inv[p].id
                    /\ \A r \in Responders \ {inv[p].responderId} :
                          responders'[r] = responders[r]]_vars

\* An incident that was dispatched to one responder was analysed and then
\* dispatched again: two responders are en route to it.
C24_Witness ==
    \E p \in Procs, r1, r2 \in Responders :
        /\ Dispatch(p) /\ inv[p].pc = "success" /\ inv[p].status = "analyzed"
        /\ r1 # r2 /\ inv[p].responderId = r1
        /\ incidents[inv[p].id].status = "dispatched"
        /\ incidents[inv[p].id].dispatchedTo = r1
        /\ responders[r1].status = "en_route"
        /\ responders[r1].currentIncidentId = inv[p].id
        /\ responders[r2].status = "en_route"
        /\ responders[r2].currentIncidentId = inv[p].id

\* C25: an invocation of autoDispatch sends the notification before it writes
\* anything, writes the incident before the responder, and writes the
\* responder only after the incident; when the responder update fails, the
\* catch block's update sets the incident dispatch_failed and leaves
\* dispatchedTo, set by the incident update, and every responder as they were.
C25_StepOrder ==
    /\ [](\A p \in Procs :
            Dispatch(p) =>
                /\ inv[p].pc \in {"read", "query", "notify"} =>
                      inv[p].notifs = 0 /\ inv[p].incWrites = 0 /\ inv[p].respWrites = 0
                /\ inv[p].pc = "write_incident" =>
                      /\ inv[p].incWrites = 0 /\ inv[p].respWrites = 0
                      /\ responders[inv[p].responderId].fcmToken => inv[p].notifs = 1
                /\ inv[p].pc = "write_responder" =>
                      inv[p].incWrites = 1 /\ inv[p].respWrites = 0
                /\ inv[p].respWrites = 1 => inv[p].incWrites = 1 /\ inv[p].pc = "success")
    /\ [][\A p \in Procs :
            /\ Dispatch(p) /\ StepsFrom(p, "catch") /\ inv[p].incWrites = 1
            /\ inv'[p].pc = "failed"
            => /\ inv[p].error = ErrUpdate /\ inv[p].respWrites = 0
               /\ incidents'[inv[p].id].status = "dispatch_failed"
               /\ incidents'[inv[p].id].dispatchedTo = incidents[inv[p].id].dispatchedTo
               /\ incidents'[inv[p].id].dispatchedTo \in Responders
               /\ responders' = responders]_vars

\* The notification was sent and the incident written as dispatched, the
\* responder update failed: the incident is dispatch_failed with dispatchedTo
\* still naming the responder, who is still available.
C25_Witness ==
    \E p \in Procs :
        /\ Dispatch(p) /\ inv[p].pc = "failed" /\ inv[p].error = ErrUpdate
        /\ inv[p].notifs = 1 /\ inv[p].incWrites = 2 /\ inv[p].respWrites = 0
        /\ incidents[inv[p].id].status = "dispatch_failed"
        /\ incidents[inv[p].id].dispatchedTo = inv[p].responderId
        /\ responders[inv[p].responderId].status = "available"
        /\ responders[inv[p].responderId].currentIncidentId = NoValue

NoneAvailable == \A r \in Responders : responders[r].status # "available"

\* What a step may do to the responders, and what an attempt does that
\* queries the registry when no responder is available.
C26_Step ==
    /\ \A r \in Responders :
          /\ responders[r].status # "available" => responders'[r].status # "available"
          /\ responders[r].status = "en_route" => responders'[r].status = "en_route"
          /\ responders[r].currentIncidentId # NoValue =>
                responders'[r].currentIncidentId # NoValue
    /\ \A p \in Procs :
          Dispatch(p) /\ NoneAvailable =>
              /\ StepsFrom(p, "query") =>
                    \/ inv'[p].pc = "write_pending"
                    \/ inv'[p].pc = "catch" /\ inv'[p].error = ErrQuery
              /\ StepsFrom(p, "write_pending") =>
                    \/ /\ inv'[p].pc = "no_capacity"
                       /\ incidents'[inv[p].id].status = "pending_dispatch"
                    \/ inv'[p].pc = "catch" /\ inv'[p].error = ErrUpdate

\* C26 (as claimed): no step makes a responder available, takes a responder
\* out of en_route or clears its currentIncidentId; and an attempt that has
\* yet to read its incident when no responder is available ends nowhere but
\* in pending_dispatch.
C26_ExhaustedMeansPending ==
    /\ [][C26_Step]_vars
    /\ \A p \in Procs :
          [](Dispatch(p) /\ inv[p].pc = "read" /\ NoneAvailable =>
                [](Dispatch(p) /\ Ended(p) => inv[p].pc = "no_capacity"))

\* C26 (amended): no step makes a responder available, takes a responder out
\* of en_route or clears its currentIncidentId; once no responder is
\* available, the registry query of an attempt finds none and the attempt
\* records pending_dispatch, unless the query or that update fails and the
\* attempt goes to the failure branch.  (An attempt also ends without
\* pending_dispatch when its read fails or finds the incident dispatched,
\* resolved or missing.)
C26_AvailabilityOnlyShrinks == [][C26_Step]_vars

\* Every responder is taken or offline and a later attempt has recorded
\* pending_dispatch.
C26_Witness ==
    \E p \in Procs :
        /\ NoneAvailable
        /\ \E r \in Responders : responders[r].status = "en_route"
        /\ Dispatch(p) /\ inv[p].pc = "no_capacity"
        /\ incidents[inv[p].id].status = "pending_dispatch"

\* C27: an invocation of autoDispatch whose payload has no incidentId has
\* ended by being skipped: it read no incident, selected no responder, wrote
\* nothing, sent nothing and has no error on record; its delivery changes no
\* document.
C27_SkipsWithoutIncidentId ==
    /\ [](\A p \in Procs :
            Dispatch(p) /\ inv[p].id = NoId =>
                /\ inv[p].pc = "skipped"
                /\ inv[p].status = NoValue
                /\ inv[p].responderId = NoValue
                /\ inv[p].error = NoValue
                /\ inv[p].incWrites = 0 /\ inv[p].respWrites = 0 /\ inv[p].notifs = 0)
    /\ [][\A p \in Procs :
            inv'[p] # inv[p] /\ inv'[p].kind = "dispatch" /\ inv'[p].id = NoId =>
                incidents' = incidents /\ responders' = responders]_vars

\* A trigger without incidentId was skipped.
C27_Witness ==
    \E p \in Procs : Dispatch(p) /\ inv[p].id = NoId /\ inv[p].pc = "skipped"

\* The position of a status in the life of an upload.
StatusRank(st) ==
    CASE st = "uploading" -> 0
      [] st = "processing" -> 1
      [] st = "completed" -> 2
      [] OTHER -> 3

\* The listed files, by position, before and after a step that removes none
\* and adds new ones at the head only.
SameFiles == Len(upload'.uploadedFiles) = Len(upload.uploadedFiles)

\* C28: every listed file is uploading, processing or completed with a
\* progress between 0 and 100, and its progress is 100 when it is processing
\* or completed; in a step that keeps the list, no file's status moves back or on
\* by more than one stage and no file's progress goes down; with timers that
\* fire, from some point on every listed file is completed.
C28_UploadLifecycle ==
    /\ [](\A i \in 1..Len(upload.uploadedFiles) :
            LET f == upload.uploadedFiles[i] IN
            /\ f.status \in {"uploading", "processing", "completed"}
            /\ f.progress >= 0 /\ f.progress <= 100
            /\ f.status \in {"processing", "completed"} => f.progress = 100)
    /\ [][SameFiles =>
            \A i \in 1..Len(upload.uploadedFiles) :
                /\ StatusRank(upload'.uploadedFiles[i].status)
                      >= StatusRank(upload.uploadedFiles[i].status)
                /\ StatusRank(upload'.uploadedFiles[i].status)
                      <= StatusRank(upload.uploadedFiles[i].status) + 1
                /\ upload'.uploadedFiles[i].progress >= upload.uploadedFiles[i].progress]_vars
    /\ <>[](\A i \in 1..Len(upload.uploadedFiles) :
                upload.uploadedFiles[i].status = "completed")

\* C29: currentTime is between 0 and duration; a step that changes it either
\* resets it to 0 or, while isPlaying is true, advances it by 1, and no two
\* steps advance it within the same second.
C29_AdvancesOnlyWhilePlaying ==
    /\ [](player.currentTime >= 0 /\ player.currentTime <= duration)
    /\ [][player'.currentTime # player.currentTime =>
            \/ player'.currentTime = 0
            \/ /\ player.isPlaying
               /\ player'.currentTime = player.currentTime + 1
               /\ \A iv \in player.intervals : iv.phase # "fired"]_vars

====
